---- MODULE Spec2Model ----
(***************************************************************************)
(* Cheerlights Pico Bot (src/main.py): the control loop that connects,     *)
(* pulls the shared colour, pulses, displays it on LEDs 8..15, scans the   *)
(* keypad for a palette button and pushes the chosen colour's label.       *)
(*                                                                         *)
(* Strings are sequences of one-character strings, colours are <<r,g,b>>,  *)
(* brightness and delays are integers in units of 0.0001.                  *)
(***************************************************************************)
EXTENDS Integers, Sequences, FiniteSets, TLC

VARIABLES
  pc,                  \* position of the main loop (lines 146-181)
  err,                 \* exception being handled by line 177, "none" outside
  previous,            \* global previous (line 140, 173)
  last_button_states,  \* global last_button_states (line 141, 113)
  led,                 \* per-LED colour held by the keypad driver
  brightness,          \* global brightness held by the keypad driver
  response,            \* what the last pull returned (line 153)
  rgb,                 \* locals r, g, b of the main loop (line 164)
  button_states,       \* value read by the last scan (line 111)
  start_time,          \* local start_time of check (line 109)
  ticks,               \* the board's millisecond tick counter
  polled,              \* check has run a round of its loop since the last tick
  pushed,              \* value1 of the last webhook request, "none" if none
  done,                \* operations performed since the last pull (history)
  heldPushes,          \* push requests since the scanned mask last changed
  pulse_pc,            \* position inside pulse (lines 72-95)
  times,               \* argument times of pulse
  fast,                \* argument fast of pulse
  delay,               \* local delay of pulse
  pulse_b,             \* local brightness of pulse
  cycles               \* completed iterations of the for loop of pulse

vars == <<pc, err, previous, last_button_states, led, brightness, response,
          rgb, button_states, start_time, ticks, polled, pushed, done, heldPushes,
          pulse_pc, times, fast, delay, pulse_b, cycles>>

mainVars == <<pc, err, previous, last_button_states, led, response, rgb,
              button_states, start_time, ticks, polled, pushed, done, heldPushes>>

pulseVars == <<pulse_pc, times, fast, delay, pulse_b, cycles>>

----------------------------------------------------------------------------
(* Bounds of the model *)

\* most pads held down at the same time in one scan
MaxPressed == 2
\* the tick counter wraps at 2^TicksBits
TicksBits == 3
\* milliseconds per modelled tick of the counter
TickMs == 60000
\* largest cycle count pulse is called with in SpecPulse
MaxTimes == 2

----------------------------------------------------------------------------
(* Program constants *)

UPDATE_INTERVAL == 120
NUM_PADS == 16
END_TO_END_DELAY == 10
BACKOFF == 5

CHOICES ==
  << << <<"#","0","0","0","0","f","f">>, "blue" >>,
     << <<"#","0","0","8","0","0","0">>, "green" >>,
     << <<"#","0","0","f","f","f","f">>, "cyan" >>,
     << <<"#","f","f","0","0","0","0">>, "red" >>,
     << <<"#","f","f","0","0","f","f">>, "magenta" >>,
     << <<"#","8","9","5","9","0","0">>, "orange" >>,
     << <<"#","f","f","2","3","4","9">>, "pink" >>,
     << <<"#","f","f","f","f","0","0">>, "yellow" >> >>

MAPPINGS ==
  << << <<"#","f","f","a","5","0","0">>, <<"#","8","9","5","9","0","0">> >>,
     << <<"#","f","f","c","0","c","b">>, <<"#","f","f","2","3","4","9">> >> >>

\* list(CHOICES.keys()) and list(CHOICES.values()): the same order for both
CHOICES_keys == [i \in 1..Len(CHOICES) |-> CHOICES[i][1]]
CHOICES_values == [i \in 1..Len(CHOICES) |-> CHOICES[i][2]]

\* hex in MAPPINGS / MAPPINGS[hex]
InMAPPINGS(hex) == \E i \in 1..Len(MAPPINGS) : MAPPINGS[i][1] = hex
MAPPINGS_get(hex) == MAPPINGS[CHOOSE i \in 1..Len(MAPPINGS) : MAPPINGS[i][1] = hex][2]

----------------------------------------------------------------------------
(* hex_to_rgb, lines 57-61 *)

\* a result that stands for a raised ValueError
ValueError == <<>>

LowerDigits == <<"0","1","2","3","4","5","6","7","8","9","a","b","c","d","e","f">>
UpperDigits == <<"A","B","C","D","E","F">>

IsHexDigit(c) ==
  \/ \E i \in 1..Len(LowerDigits) : LowerDigits[i] = c
  \/ \E i \in 1..Len(UpperDigits) : UpperDigits[i] = c

HexVal(c) ==
  IF \E i \in 1..Len(LowerDigits) : LowerDigits[i] = c
  THEN (CHOOSE i \in 1..Len(LowerDigits) : LowerDigits[i] = c) - 1
  ELSE (CHOOSE i \in 1..Len(UpperDigits) : UpperDigits[i] = c) + 9

\* hex.lstrip('#'): every leading '#' is removed
RECURSIVE lstrip(_)
lstrip(s) ==
  IF s # <<>> /\ Head(s) = "#" THEN lstrip(Tail(s)) ELSE s

RECURSIVE lstripSpace(_)
lstripSpace(s) ==
  IF s # <<>> /\ Head(s) = " " THEN lstripSpace(Tail(s)) ELSE s

RECURSIVE rstripSpace(_)
rstripSpace(s) ==
  IF s # <<>> /\ s[Len(s)] = " " THEN rstripSpace(SubSeq(s, 1, Len(s) - 1)) ELSE s

RECURSIVE DigitsValue(_, _)
DigitsValue(s, acc) ==
  IF s = <<>> THEN acc ELSE DigitsValue(Tail(s), acc * 16 + HexVal(Head(s)))

\* int(s, 16) on a slice of at most two characters: surrounding blanks and
\* one sign are accepted, at least one digit is required. The result is
\* <<value>>, or ValueError
int16(s) ==
  LET t == rstripSpace(lstripSpace(s))
      signed == t # <<>> /\ Head(t) \in {"+", "-"}
      d == IF signed THEN Tail(t) ELSE t
  IN IF d = <<>> \/ \E i \in 1..Len(d) : ~IsHexDigit(d[i])
     THEN ValueError
     ELSE IF signed /\ Head(t) = "-" THEN <<0 - DigitsValue(d, 0)>>
          ELSE <<DigitsValue(d, 0)>>

\* h[i:i + 2] for a 0-based i
Slice2(h, i) ==
  SubSeq(h, i + 1, IF i + 2 <= Len(h) THEN i + 2 ELSE Len(h))

hex_to_rgb(hex) ==
  LET h == lstrip(hex)
      r == int16(Slice2(h, 0))
      g == int16(Slice2(h, 2))
      b == int16(Slice2(h, 4))
  IN IF ValueError \in {r, g, b} THEN ValueError ELSE r \o g \o b

----------------------------------------------------------------------------
(* pulled responses *)

\* values of field2 the service is modelled to return
Field2Values ==
  { <<"#","f","f","a","5","0","0">>,        \* key of MAPPINGS
    <<"#","f","f","0","0","0","0">>,        \* palette colour
    <<"0","0","f","f","f","f">>,            \* no leading '#'
    <<"#","F","F","A","5","0","0">>,        \* upper case, not a key
    <<"#","f","f","0","0">>,                \* too short
    <<"#","f","f","0","0","0","0","8","0">>,\* too long
    <<"#","g","g","0","0","0","0">> }       \* not hexadecimal

NoResponse == [kind |-> "none", field2 |-> <<>>]

Responses ==
  { [kind |-> "NetworkError", field2 |-> <<>>],    \* requests.get raises (line 153)
    [kind |-> "BadJSON", field2 |-> <<>>],         \* json.loads raises (line 154)
    [kind |-> "NoField2", field2 |-> <<>>] }       \* data['field2'] raises (line 157)
  \cup { [kind |-> "OK", field2 |-> f] : f \in Field2Values }

\* the mapping of lines 160-161 left out
normalize_mut(hex) == hex

\* lines 160-161
normalize(hex) == IF InMAPPINGS(hex) THEN MAPPINGS_get(hex) ELSE hex

\* lines 153-164: the exception raised ("none" if none) and the triple r, g, b
Decode(resp) ==
  IF resp.kind # "OK" THEN [exc |-> resp.kind, rgb |-> <<>>]
  ELSE LET t == hex_to_rgb(normalize(resp.field2))
       IN IF t = ValueError THEN [exc |-> "ValueError", rgb |-> <<>>]
          ELSE [exc |-> "none", rgb |-> t]

----------------------------------------------------------------------------
(* the keypad driver *)

Pads == 0..(NUM_PADS - 1)
Off == <<0, 0, 0>>
White == <<255, 255, 255>>

\* range(8, NUM_PADS - 1): the last LED of the region is left out
illuminate_half_mut(l, c) ==
  [i \in Pads |-> IF i \in 8..(NUM_PADS - 2) THEN c ELSE l[i]]

\* range(7, NUM_PADS): the last indicator LED is written too
illuminate_half_low(l, c) ==
  [i \in Pads |-> IF i \in 7..(NUM_PADS - 1) THEN c ELSE l[i]]

\* lines 64-67: LEDs 8..NUM_PADS-1 get the colour, the others keep theirs
illuminate_half(l, c) ==
  [i \in Pads |-> IF i \in 8..(NUM_PADS - 1) THEN c ELSE l[i]]

\* the palette painted in reverse order
setup_choices_mut(l) ==
  [i \in Pads |-> IF i < Len(CHOICES_keys)
                  THEN hex_to_rgb(CHOICES_keys[Len(CHOICES_keys) - i])
                  ELSE l[i]]

\* lines 98-104: LED i gets the colour of the i-th key of CHOICES
setup_choices(l) ==
  [i \in Pads |-> IF i < Len(CHOICES_keys) THEN hex_to_rgb(CHOICES_keys[i + 1])
                  ELSE l[i]]

RECURSIVE BitCount(_)
BitCount(m) == IF m = 0 THEN 0 ELSE (m % 2) + BitCount(m \div 2)

Bit(i) == 2 ^ i

IsDown(m, i) == (m \div Bit(i)) % 2 = 1

\* pads that are held down together with other pads in the modelled scans
ComboPads == {0, 2, 7, 9}

\* the masks of up to k pads of ComboPads
RECURSIVE MasksUpTo(_)
MasksUpTo(k) ==
  IF k = 0 THEN {0}
  ELSE LET P == MasksUpTo(k - 1)
       IN P \cup { mi[1] + Bit(mi[2]) :
                    mi \in {x \in P \X ComboPads : ~IsDown(x[1], x[2])} }

\* the masks get_button_states is modelled to return: no pad, every single
\* pad, and up to MaxPressed pads of ComboPads together
Masks == { Bit(i) : i \in Pads } \cup MasksUpTo(MaxPressed)

----------------------------------------------------------------------------
(* press detection of check, lines 112-127 *)

NoButton == 0 - 1

\* the mask cut to its low eight bits before the other pads are tested
RECURSIVE find_mut(_, _)
find_mut(bs, button) ==
  IF button >= 8 THEN NoButton
  ELSE LET m == bs % (2 ^ (8 - button))
       IN IF (m % 2) > 0 /\ ~((m - (m % 2)) > 0) THEN button
          ELSE find_mut(bs \div 2, button + 1)

\* lines 115-127: the for loop over find, button_states shifted each round
RECURSIVE find(_, _)
find(bs, button) ==
  IF button >= 8 THEN NoButton
  ELSE IF (bs % 2) > 0 /\ ~((bs - (bs % 2)) > 0) THEN button
       ELSE find(bs \div 2, button + 1)

\* level-triggered: the comparison with the last scan left out
press_mut(last, bs) ==
  IF bs > 0 THEN find(bs, 0) ELSE NoButton

\* lines 112-114: only a scan that differs from the last one is looked at
press(last, bs) ==
  IF last # bs
  THEN IF bs > 0 THEN find(bs, 0) ELSE NoButton
  ELSE NoButton

\* the label of the next palette entry
label_mut(button) == CHOICES_values[((button + 1) % Len(CHOICES_values)) + 1]

\* line 120: list(CHOICES.values())[button]
label(button) == CHOICES_values[button + 1]

----------------------------------------------------------------------------
(* pulse, lines 72-95 *)

step == 5
min_b == 1000
max_b == 10000
FAST_DELAY == 9
SLOW_DELAY == 10

\* lines 82-84
DownStep(b) == LET b1 == b - step IN IF b1 < min_b THEN min_b ELSE b1
\* lines 90-92
UpStep(b) == LET b1 == b + step IN IF b1 > max_b THEN max_b ELSE b1
\* line 81
DownMore(b) == b > min_b
\* the upward ramp stops one step early
UpMore_mut(b) == b < max_b - step
\* line 89
UpMore(b) == b < max_b

\* at most k rounds of the while loop of lines 81-87
RECURSIVE DownRounds(_, _)
DownRounds(k, b) ==
  IF k = 0 \/ ~DownMore(b) THEN b ELSE DownRounds(k - 1, DownStep(b))

\* at most k rounds of the while loop of lines 89-95
RECURSIVE UpRounds(_, _)
UpRounds(k, b) ==
  IF k = 0 \/ ~UpMore(b) THEN b ELSE UpRounds(k - 1, UpStep(b))

\* lines 81-87 run to the end, 100 rounds at a time
RECURSIVE RampDown(_)
RampDown(b) ==
  LET b1 == DownRounds(100, b)
  IN IF DownMore(b1) THEN RampDown(b1) ELSE b1

\* lines 89-95 run to the end, 100 rounds at a time
RECURSIVE RampUp(_)
RampUp(b) ==
  LET b1 == UpRounds(100, b)
  IN IF UpMore(b1) THEN RampUp(b1) ELSE b1

\* lines 79-95: one round of the for loop, which starts at max_b
CycleEnd == RampUp(RampDown(max_b))

\* the brightness pulse(n) leaves behind when called at brightness b
RECURSIVE pulse_result(_, _)
pulse_result(n, b) ==
  IF n = 0 THEN b ELSE pulse_result(n - 1, CycleEnd)

----------------------------------------------------------------------------
(* the history of the current cycle *)

Op(name, arg) == [op |-> name, arg |-> arg]

\* each operation is listed once, in the order of its first occurrence
Log(d, e) == IF \E i \in 1..Len(d) : d[i] = e THEN d ELSE Append(d, e)

Has(d, name) == \E i \in 1..Len(d) : d[i].op = name

Pos(d, name) == CHOOSE i \in 1..Len(d) : d[i].op = name

----------------------------------------------------------------------------
(* the state after lines 134-144 *)

Init ==
  /\ pc = "CONNECTING"
  /\ err = "none"
  /\ previous = White
  /\ last_button_states = 0
  /\ led = setup_choices([i \in Pads |-> Off])
  /\ brightness = max_b
  /\ response = NoResponse
  /\ rgb = <<>>
  /\ button_states = 0
  /\ start_time = 0
  /\ ticks = 0
  /\ polled = FALSE
  /\ pushed = "none"
  /\ done = <<>>
  /\ heldPushes = 0
  /\ pulse_pc = "idle"
  /\ times = 0
  /\ fast = FALSE
  /\ delay = 0
  /\ pulse_b = 0
  /\ cycles = 0

----------------------------------------------------------------------------
(* the main loop, lines 146-181 *)

TICKS_PERIOD == 2 ^ TicksBits

\* the handler goes on with the next round without its sleep
Raise_nosleep(e) ==
  /\ pc' = "CONNECTING"
  /\ err' = "none"

\* the exception is not caught and ends the program
Raise_uncaught(e) ==
  /\ pc' = "HALTED"
  /\ err' = e

\* line 177: the exception leaves the try body and is handled
Raise(e) ==
  /\ pc' = "ERROR_RECOVERY"
  /\ err' = e

\* line 149
Connect ==
  /\ pc = "CONNECTING"
  /\ \E ok \in BOOLEAN :
       IF ok THEN pc' = "FETCHING" /\ err' = err
       ELSE Raise("OSError")
  /\ UNCHANGED <<previous, last_button_states, led, brightness, response, rgb,
                 button_states, start_time, ticks, polled, pushed, done, heldPushes>>
  /\ UNCHANGED pulseVars

\* lines 152-164
Pull ==
  /\ pc = "FETCHING"
  /\ \E resp \in Responses :
       LET d == Decode(resp)
       IN /\ response' = resp
          /\ IF d.exc = "none"
             THEN /\ rgb' = d.rgb
                  /\ pc' = "PULSING"
                  /\ err' = err
                  /\ done' = <<Op("pull", 0)>>
             ELSE /\ rgb' = rgb
                  /\ Raise(d.exc)
                  /\ done' = <<Op("pull", 0), Op("raise", 0)>>
  /\ pushed' = "none"
  /\ UNCHANGED <<previous, last_button_states, led, brightness,
                 button_states, start_time, ticks, polled, heldPushes>>
  /\ UNCHANGED pulseVars

\* the call of pulse left out
Pulse_mut ==
  /\ pc = "PULSING"
  /\ pulse_pc = "idle"
  /\ pc' = "DISPLAYING"
  /\ UNCHANGED <<err, previous, last_button_states, led, brightness, response,
                 rgb, button_states, start_time, ticks, polled, pushed, done,
                 heldPushes>>
  /\ UNCHANGED pulseVars

\* lines 167-168: pulse(5, True)
Pulse ==
  /\ pc = "PULSING"
  /\ pulse_pc = "idle"
  /\ brightness' = pulse_result(5, brightness)
  /\ pc' = "DISPLAYING"
  /\ done' = Log(done, Op("pulse", 5))
  /\ UNCHANGED <<err, previous, last_button_states, led, response, rgb,
                 button_states, start_time, ticks, polled, pushed, heldPushes>>
  /\ UNCHANGED pulseVars

\* the assignment of line 173 left out
Display_mut ==
  /\ pc = "DISPLAYING"
  /\ led' = illuminate_half(led, rgb)
  /\ pc' = "CHECK"
  /\ done' = Log(done, Op("display", 0))
  /\ UNCHANGED <<err, previous, last_button_states, brightness, response, rgb,
                 button_states, start_time, ticks, polled, pushed, heldPushes>>
  /\ UNCHANGED pulseVars

\* lines 170-173
Display ==
  /\ pc = "DISPLAYING"
  /\ led' = illuminate_half(led, rgb)
  /\ previous' = rgb
  /\ pc' = "CHECK"
  /\ done' = Log(done, Op("display", 0))
  /\ UNCHANGED <<err, last_button_states, brightness, response, rgb,
                 button_states, start_time, ticks, polled, pushed, heldPushes>>
  /\ UNCHANGED pulseVars

\* lines 175, 107-109: check(UPDATE_INTERVAL) reads the tick counter
CheckEnter ==
  /\ pc = "CHECK"
  /\ \E t \in 0..(TICKS_PERIOD - 1) :
       /\ ticks' = t
       /\ start_time' = t
  /\ polled' = FALSE
  /\ pc' = "AWAITING_INPUT"
  /\ UNCHANGED <<err, previous, last_button_states, led, brightness, response,
                 rgb, button_states, pushed, done, heldPushes>>
  /\ UNCHANGED pulseVars

\* the tick counter advances and wraps while check polls; the loop of check
\* does not sleep, so it runs at least one round between two ticks
Tick ==
  /\ pc = "AWAITING_INPUT"
  /\ polled
  /\ ticks' = (ticks + 1) % TICKS_PERIOD
  /\ polled' = FALSE
  /\ UNCHANGED <<pc, err, previous, last_button_states, led, brightness,
                 response, rgb, button_states, start_time, pushed, done,
                 heldPushes>>
  /\ UNCHANGED pulseVars

\* lines 128-131 with seconds = UPDATE_INTERVAL
TimedOut(start, now) == (now - start) * TickMs > UPDATE_INTERVAL * 1000

\* lines 110-131: one round of the while loop of check, with the webhook
\* request of line 123 when a press is found
Scan ==
  /\ pc = "AWAITING_INPUT"
  /\ \E bs \in Masks :
       LET button == press(last_button_states, bs)
           changed == last_button_states # bs
       IN /\ button_states' = bs
          /\ last_button_states' = IF changed THEN bs ELSE last_button_states
          /\ IF button # NoButton
             THEN /\ pushed' = label(button)
                  /\ heldPushes' = IF changed THEN 1
                                    ELSE IF heldPushes < 2 THEN heldPushes + 1 ELSE 2
                  /\ \E ok \in BOOLEAN :
                       IF ok
                       THEN /\ pc' = "PUSHING"
                            /\ err' = err
                            /\ done' = Log(Log(done, Op("scan", 0)), Op("push", button))
                       ELSE /\ Raise("OSError")
                            /\ done' = Log(Log(Log(done, Op("scan", 0)),
                                                Op("push", button)), Op("raise", 0))
                  /\ polled' = TRUE
                  /\ UNCHANGED <<start_time, ticks>>
             ELSE /\ pushed' = pushed
                  /\ heldPushes' = IF changed THEN 0 ELSE heldPushes
                  /\ err' = err
                  /\ done' = Log(done, Op("scan", 0))
                  /\ IF TimedOut(start_time, ticks)
                     THEN /\ pc' = "CONNECTING"
                          /\ start_time' = 0
                          /\ ticks' = 0
                          /\ polled' = FALSE
                     ELSE /\ pc' = "AWAITING_INPUT"
                          /\ polled' = TRUE
                          /\ UNCHANGED <<start_time, ticks>>
  /\ UNCHANGED <<previous, led, brightness, response, rgb>>
  /\ UNCHANGED pulseVars

\* after the wait the loop pulls without the connect of line 149
PropagationSleep_mut ==
  /\ pc = "PUSHING"
  /\ pc' = "FETCHING"
  /\ done' = Log(done, Op("sleep", END_TO_END_DELAY))
  /\ start_time' = 0
  /\ ticks' = 0
  /\ polled' = FALSE
  /\ UNCHANGED <<err, previous, last_button_states, led, brightness, response,
                 rgb, button_states, pushed, heldPushes>>
  /\ UNCHANGED pulseVars

\* lines 124-125: the propagation wait, then check returns
PropagationSleep ==
  /\ pc = "PUSHING"
  /\ pc' = "CONNECTING"
  /\ done' = Log(done, Op("sleep", END_TO_END_DELAY))
  /\ start_time' = 0
  /\ ticks' = 0
  /\ polled' = FALSE
  /\ UNCHANGED <<err, previous, last_button_states, led, brightness, response,
                 rgb, button_states, pushed, heldPushes>>
  /\ UNCHANGED pulseVars

\* the handler forgets the last scan
Backoff_mut ==
  /\ pc = "ERROR_RECOVERY"
  /\ pc' = "CONNECTING"
  /\ err' = "none"
  /\ done' = Log(done, Op("sleep", BACKOFF))
  /\ start_time' = 0
  /\ ticks' = 0
  /\ polled' = FALSE
  /\ last_button_states' = 0
  /\ UNCHANGED <<previous, led, brightness, response, rgb,
                 button_states, pushed, heldPushes>>
  /\ UNCHANGED pulseVars

\* lines 179-181, then the next round of while True
Backoff ==
  /\ pc = "ERROR_RECOVERY"
  /\ pc' = "CONNECTING"
  /\ err' = "none"
  /\ done' = Log(done, Op("sleep", BACKOFF))
  /\ start_time' = 0
  /\ ticks' = 0
  /\ polled' = FALSE
  /\ UNCHANGED <<previous, last_button_states, led, brightness, response, rgb,
                 button_states, pushed, heldPushes>>
  /\ UNCHANGED pulseVars

Next ==
  \/ Connect
  \/ Pull
  \/ Pulse
  \/ Display
  \/ CheckEnter
  \/ Tick
  \/ Scan
  \/ PropagationSleep
  \/ Backoff

Spec == Init /\ [][Next]_vars

\* one thread of control: every network call, sleep and loop round returns,
\* the tick counter keeps advancing and the loop of check keeps polling
FairSpec ==
  /\ Init
  /\ [][Next]_vars
  /\ WF_vars(Next)
  /\ WF_vars(Tick)
  /\ WF_vars(Scan)

----------------------------------------------------------------------------
(* pulse(times, fast) step by step, lines 72-95, followed by the display   *)
(* write of line 170                                                       *)

\* the loop has pulled a colour and calls pulse
InitPulse ==
  /\ pc = "PULSING"
  /\ err = "none"
  /\ previous = White
  /\ last_button_states = 0
  /\ led = setup_choices([i \in Pads |-> Off])
  /\ brightness = max_b
  /\ response \in {r \in Responses : Decode(r).exc = "none"}
  /\ rgb = Decode(response).rgb
  /\ button_states = 0
  /\ start_time = 0
  /\ ticks = 0
  /\ polled = FALSE
  /\ pushed = "none"
  /\ done = <<Op("pull", 0)>>
  /\ heldPushes = 0
  /\ pulse_pc = "for"
  /\ times \in 0..MaxTimes
  /\ fast \in BOOLEAN
  /\ delay = (IF fast THEN FAST_DELAY ELSE SLOW_DELAY)
  /\ pulse_b = 0
  /\ cycles = 0

\* lines 78-79
PulseFor ==
  /\ pulse_pc = "for"
  /\ IF cycles < times
     THEN /\ pulse_b' = max_b
          /\ pulse_pc' = "down"
     ELSE /\ pulse_b' = pulse_b
          /\ pulse_pc' = "return"
  /\ UNCHANGED <<brightness, times, fast, delay, cycles>>
  /\ UNCHANGED mainVars

\* lines 81-87
PulseDown ==
  /\ pulse_pc = "down"
  /\ IF DownMore(pulse_b)
     THEN /\ pulse_b' = DownStep(pulse_b)
          /\ brightness' = pulse_b'
          /\ pulse_pc' = "down"
     ELSE /\ UNCHANGED <<pulse_b, brightness>>
          /\ pulse_pc' = "up"
  /\ UNCHANGED <<times, fast, delay, cycles>>
  /\ UNCHANGED mainVars

\* lines 89-95
PulseUp ==
  /\ pulse_pc = "up"
  /\ IF UpMore(pulse_b)
     THEN /\ pulse_b' = UpStep(pulse_b)
          /\ brightness' = pulse_b'
          /\ pulse_pc' = "up"
          /\ cycles' = cycles
     ELSE /\ UNCHANGED <<pulse_b, brightness>>
          /\ pulse_pc' = "for"
          /\ cycles' = cycles + 1
  /\ UNCHANGED <<times, fast, delay>>
  /\ UNCHANGED mainVars

\* pulse returns to line 170
PulseReturn ==
  /\ pulse_pc = "return"
  /\ pulse_pc' = "idle"
  /\ pc' = "DISPLAYING"
  /\ done' = Log(done, Op("pulse", times))
  /\ UNCHANGED <<err, previous, last_button_states, led, brightness, response,
                 rgb, button_states, start_time, ticks, polled, pushed, heldPushes>>
  /\ UNCHANGED <<times, fast, delay, pulse_b, cycles>>

NextPulse ==
  \/ PulseFor
  \/ PulseDown
  \/ PulseUp
  \/ PulseReturn
  \/ Display

\* the sleeps of pulse return, so the single thread of control moves on
SpecPulse == InitPulse /\ [][NextPulse]_vars /\ WF_vars(NextPulse)


----------------------------------------------------------------------------
(* Properties *)

Sleep10 == Op("sleep", END_TO_END_DELAY)
Sleep5 == Op("sleep", BACKOFF)
InLog(e) == \E i \in 1..Len(done) : done[i] = e
PushCount == Cardinality({i \in 1..Len(done) : done[i].op = "push"})
\* the webhook request of this cycle raised
PushFailed == Has(done, "push") /\ Has(done, "raise")
DisplayRegion == 8..(NUM_PADS - 1)
\* the pad that is down in a mask with exactly one bit set
PadOf(m) == CHOOSE i \in Pads : Bit(i) = m

\* C1: a scan whose mask has zero bits or two or more bits set resolves to
\* no button: whenever a push request has been issued in this cycle, the
\* scanned mask that caused it had exactly one bit set.
C1_NoPushUnlessOneBit ==
  Has(done, "push") => BitCount(button_states) = 1

\* C2 as stated: one push with the button's label for a single press, and
\* whenever the loop is about to pull after a push, the 10 s propagation
\* wait has been completed.
C2_Original ==
  /\ PushCount <= 1
  /\ heldPushes <= 1
  /\ (pc = "PUSHING" /\ BitCount(button_states) = 1)
       => pushed = CHOICES[PadOf(button_states) + 1][2]
  /\ (pc = "FETCHING" /\ Has(done, "push")) => InLog(Sleep10)

\* C2 amended: one push with the button's label for a single press, never a
\* second one for the same press; when the request returns, the 10 s
\* propagation wait is completed before the next pull, and when it raises,
\* the 5 s backoff is slept instead; then the loop connects and pulls again.
C2_PushThenWait ==
  /\ PushCount <= 1
  /\ heldPushes <= 1
  /\ (pc = "PUSHING" /\ BitCount(button_states) = 1)
       => /\ pushed = CHOICES[PadOf(button_states) + 1][2]
          /\ done[Len(done)] = Op("push", PadOf(button_states))
          /\ heldPushes = 1
  /\ (pc = "FETCHING" /\ Has(done, "push") /\ ~PushFailed)
       => /\ InLog(Sleep10)
          /\ Pos(done, "push") < Pos(done, "sleep")
  /\ (pc = "FETCHING" /\ PushFailed)
       => /\ ~InLog(Sleep10)
          /\ InLog(Sleep5)
          /\ Pos(done, "push") < Pos(done, "sleep")

C2_Witness ==
  /\ pc = "FETCHING"
  /\ BitCount(button_states) = 1
  /\ Has(done, "push")
  /\ InLog(Sleep10)

\* C3 as stated: a failed push is swallowed, so after a push the loop is
\* either still in PUSHING or has slept the propagation delay; it never
\* gets to ERROR_RECOVERY, CONNECTING or FETCHING without that sleep.
C3_Original ==
  Has(done, "push") => (pc = "PUSHING" \/ InLog(Sleep10))

\* C3 amended: when the push request fails, the exception leaves check and
\* is handled by the loop's catch-all: the loop enters ERROR_RECOVERY,
\* sleeps the 5 s backoff instead of the propagation delay and goes back to
\* CONNECTING; the push is not repeated.
C3_PushFailureRecovers ==
  PushFailed =>
    /\ pc \in {"ERROR_RECOVERY", "CONNECTING", "FETCHING"}
    /\ ~InLog(Sleep10)
    /\ PushCount = 1
    /\ (pc = "ERROR_RECOVERY" => err = "OSError")
    /\ (pc # "ERROR_RECOVERY" => (InLog(Sleep5) /\ err = "none"))

C3_Witness ==
  /\ PushFailed
  /\ pc = "CONNECTING"
  /\ InLog(Sleep5)

\* C4: every failure raised in CONNECTING or FETCHING moves the loop to
\* ERROR_RECOVERY, which sleeps the 5 s backoff and returns to CONNECTING;
\* the loop has no position outside its cycle, and nothing counts retries.
C4_FailuresRecover ==
  [][ /\ (pc = "CONNECTING" => pc' \in {"FETCHING", "ERROR_RECOVERY"})
      /\ (pc = "CONNECTING" /\ err' # "none") => pc' = "ERROR_RECOVERY"
      /\ (pc = "FETCHING" /\ Decode(response').exc # "none")
           => (pc' = "ERROR_RECOVERY" /\ err' = Decode(response').exc)
      /\ (pc = "FETCHING" /\ Decode(response').exc = "none")
           => pc' = "PULSING"
      /\ (pc = "ERROR_RECOVERY")
           => (pc' = "CONNECTING" /\ err' = "none" /\ InLog(Sleep5)')
      /\ pc' \in {"CONNECTING", "FETCHING", "PULSING", "DISPLAYING", "CHECK",
                  "AWAITING_INPUT", "PUSHING", "ERROR_RECOVERY"}
    ]_vars

C4_Witness ==
  /\ pc = "CONNECTING"
  /\ response.kind = "OK"
  /\ Decode(response).exc = "ValueError"
  /\ done = <<Op("pull", 0), Op("raise", 0), Sleep5>>

\* C5: press detection is edge-triggered against last_button_states, which
\* only a scan changes: a scan whose mask equals last_button_states never
\* issues a push, and a mask that stays the same over any number of scans and
\* cycles causes at most one push attempt.
C5_EdgeTriggered ==
  [][ /\ (~Has(done, "push") /\ Has(done', "push"))
           => /\ pc = "AWAITING_INPUT"
              /\ button_states' # last_button_states
              /\ last_button_states' = button_states'
      /\ (pc # "AWAITING_INPUT") => last_button_states' = last_button_states
      /\ heldPushes' <= 1
    ]_vars

C5_Witness ==
  /\ pc = "AWAITING_INPUT"
  /\ heldPushes = 1
  /\ BitCount(button_states) = 1
  /\ button_states = last_button_states
  /\ done = <<Op("pull", 0), Op("pulse", 5), Op("display", 0), Op("scan", 0)>>

\* C6: a changed mask with only bit i set, i in 0..7, resolves to button i,
\* and the label pushed for it is the label of the palette entry whose
\* colour setup_choices painted on LED i.
C6_IndexLabelLedAgree ==
  /\ \A i \in 0..7 :
       press(last_button_states, Bit(i)) =
         (IF last_button_states = Bit(i) THEN NoButton ELSE i)
  /\ (Has(done, "push") /\ BitCount(button_states) = 1)
       => \E i \in 0..7 :
            /\ button_states = Bit(i)
            /\ InLog(Op("push", i))
            /\ \E k \in 1..Len(CHOICES) :
                 /\ hex_to_rgb(CHOICES[k][1]) = led[i]
                 /\ CHOICES[k][2] = pushed
                 /\ \A j \in 1..Len(CHOICES) :
                      hex_to_rgb(CHOICES[j][1]) = led[i] => j = k

C6_Witness ==
  /\ Has(done, "push")
  /\ button_states = 4
  /\ InLog(Op("push", 2))
  /\ pushed = "cyan"
  /\ led[2] = <<0, 255, 255>>

\* C7: a pull of "#ffa500" is shown as the RGB of "#895900", the colour
\* MAPPINGS maps it to, and previous becomes that RGB.
C7_MappedColorDisplayed ==
  (Has(done, "display") /\ response.field2 = <<"#","f","f","a","5","0","0">>)
    => /\ \A i \in DisplayRegion : led[i] = <<137, 89, 0>>
       /\ previous = <<137, 89, 0>>
       /\ hex_to_rgb(<<"#","8","9","5","9","0","0">>) = <<137, 89, 0>>
       /\ hex_to_rgb(response.field2) = <<255, 165, 0>>

C7_Witness ==
  /\ pc = "CHECK"
  /\ response.field2 = <<"#","f","f","a","5","0","0">>
  /\ led[8] = <<137, 89, 0>>

\* C8 as stated: the display region always shows the RGB of the raw pulled
\* colour, also for the keys of MAPPINGS.
C8_Original ==
  Has(done, "display")
    => \A i \in DisplayRegion : led[i] = hex_to_rgb(response.field2)

\* C8 amended: the display region shows the RGB of the raw pulled colour
\* for every colour that is not a key of MAPPINGS, and the RGB of the
\* mapped colour for the keys of MAPPINGS.
C8_RawUnlessMapped ==
  Has(done, "display")
    => \A i \in DisplayRegion :
         led[i] = (IF InMAPPINGS(response.field2)
                   THEN hex_to_rgb(MAPPINGS_get(response.field2))
                   ELSE hex_to_rgb(response.field2))

C8_Witness ==
  /\ pc = "CHECK"
  /\ response.field2 = <<"#","F","F","A","5","0","0">>
  /\ led[NUM_PADS - 1] = <<255, 165, 0>>

\* C9: in every cycle the five-cycle pulse is complete before the display
\* write, the display write before the first scan, and no scan or push
\* happens between the pull and the display write.
C9_PulseDisplayScanOrder ==
  /\ Has(done, "pulse")
       => (done[1] = Op("pull", 0) /\ done[2] = Op("pulse", 5))
  /\ Has(done, "display") => (Len(done) >= 3 /\ done[2] = Op("pulse", 5)
                                /\ done[3] = Op("display", 0))
  /\ Has(done, "scan") => (Has(done, "display")
                             /\ Pos(done, "display") < Pos(done, "scan"))
  /\ Has(done, "push") => (Has(done, "scan")
                             /\ Pos(done, "scan") < Pos(done, "push"))
  /\ pc = "DISPLAYING" => (done = <<Op("pull", 0), Op("pulse", 5)>>
                             /\ brightness = max_b)
  /\ pc \in {"CHECK", "AWAITING_INPUT", "PUSHING"} => Has(done, "display")

C9_Witness ==
  /\ pc = "AWAITING_INPUT"
  /\ done = <<Op("pull", 0), Op("pulse", 5), Op("display", 0), Op("scan", 0)>>

\* C10: every brightness pulse(n, fast) sends lies in min_b..max_b, each
\* down-up cycle ends at max_b, pulse returns after n cycles, and the
\* brightness is max_b when the display write happens.
C10_PulseWithinRange ==
  /\ [](brightness \in min_b..max_b)
  /\ [](pulse_pc \in {"down", "up"} => pulse_b = brightness \/ pulse_b = max_b)
  /\ []((pulse_pc = "for" /\ cycles > 0) => brightness = max_b)
  /\ [](pulse_pc \in {"return", "idle"} => cycles = times)
  /\ [](cycles <= times)
  /\ [](pc = "DISPLAYING" => brightness = max_b)
  /\ [](delay = (IF fast THEN FAST_DELAY ELSE SLOW_DELAY))
  /\ <>(pulse_pc = "idle" /\ pc = "CHECK")

C10_Witness ==
  /\ pulse_pc = "for"
  /\ times = MaxTimes
  /\ cycles = MaxTimes
  /\ brightness = max_b

\* a string that is exactly six hex digits after one optional leading '#'
SixHexDigits(str) ==
  LET h == IF str # <<>> /\ Head(str) = "#" THEN Tail(str) ELSE str
  IN Len(h) = 6 /\ \A i \in 1..Len(h) : IsHexDigit(h[i])

\* C11: a pulled colour string that is not exactly six hex digits after its
\* optional '#' fails to decode, and the loop goes to ERROR_RECOVERY without
\* a pulse, without a display write and with previous unchanged.
C11_MalformedRejected ==
  (response.kind = "OK" /\ ~SixHexDigits(response.field2))
    => /\ ~Has(done, "pulse")
       /\ ~Has(done, "display")
       /\ pc \in {"ERROR_RECOVERY", "CONNECTING", "FETCHING"}

\* the time since the entry of check as ticks_diff would give it
Elapsed(start, now) == (now - start) % TICKS_PERIOD

\* C12: without a press, a round of the loop of check that finds more than
\* seconds*1000 ms elapsed since its entry leaves the loop, whatever value
\* the wrapping tick counter had at entry.
C12_WindowEnds ==
  [][ ( /\ pc = "AWAITING_INPUT"
        /\ polled' /\ ~Has(done', "push")
        /\ Elapsed(start_time, ticks) * TickMs > UPDATE_INTERVAL * 1000 )
      => pc' # "AWAITING_INPUT"
    ]_vars

\* C13 as stated: after the input window, or after the push and its wait,
\* the pull comes next with no connect in between, so the loop never is in
\* ERROR_RECOVERY for a connect failure with the scan as its last operation.
C13_Original ==
  ~( /\ pc = "ERROR_RECOVERY"
     /\ err = "OSError"
     /\ Has(done, "scan")
     /\ ~Has(done, "raise") )

\* C13 amended: after the input window, or after the push and its wait, the
\* next step of the loop is CONNECTING: every pull is directly preceded by
\* the connect of line 149, which can fail and send the loop to
\* ERROR_RECOVERY before the next pull.
C13_ConnectBeforePull ==
  [][ /\ (pc \in {"AWAITING_INPUT", "PUSHING"}
            /\ pc' \notin {"AWAITING_INPUT", "PUSHING", "ERROR_RECOVERY"})
           => pc' = "CONNECTING"
      /\ (pc' = "FETCHING" /\ pc # "FETCHING") => pc = "CONNECTING"
      /\ (pc = "CONNECTING") => pc' \in {"CONNECTING", "FETCHING", "ERROR_RECOVERY"}
    ]_vars

C13_Witness ==
  /\ pc = "CONNECTING"
  /\ err = "none"
  /\ done = <<Op("pull", 0), Op("pulse", 5), Op("display", 0), Op("scan", 0)>>

\* the display region shows something
Shown == \E i \in DisplayRegion : led[i] # Off

\* C14: once the display region has been written, previous is the colour
\* last written to it, in particular whenever the loop enters PULSING.
C14_PreviousIsDisplayed ==
  /\ Shown => \A i \in DisplayRegion : led[i] = previous
  /\ ~Shown => (previous = White /\ ~Has(done, "display"))
  /\ Has(done, "display") => Shown

C14_Witness ==
  /\ pc = "PULSING"
  /\ Shown
  /\ previous # White
  /\ rgb # previous
  /\ led[8] = previous

\* what a failing round must leave alone
FailFrame ==
  /\ previous' = previous
  /\ last_button_states' = last_button_states
  /\ led' = led
  /\ brightness' = brightness
  /\ pushed' = pushed \/ pushed' = "none"
  /\ \A n \in {"pulse", "display", "scan", "push"} :
       Has(done', n) => Has(done, n)

\* C15: a round that fails in CONNECTING or FETCHING leaves previous,
\* last_button_states, the LED colours and the brightness unchanged and does
\* no pulse, display write, scan or push before the next CONNECTING.
C15_FailedRoundFrame ==
  [][ /\ (pc = "CONNECTING" /\ pc' = "ERROR_RECOVERY") => FailFrame
      /\ (pc = "FETCHING" /\ pc' = "ERROR_RECOVERY")
           => (FailFrame /\ done' = <<Op("pull", 0), Op("raise", 0)>>)
      /\ (pc = "ERROR_RECOVERY") => (FailFrame /\ pc' = "CONNECTING")
    ]_vars

C15_Witness ==
  /\ pc = "CONNECTING"
  /\ done = <<Op("pull", 0), Op("raise", 0), Sleep5>>
  /\ previous # White
  /\ last_button_states # 0

\* C16: the colours setup_choices painted on LEDs 0..7 never change: the
\* display write changes only LEDs 8..NUM_PADS-1 and pulse changes no colour.
C16_IndicatorsKept ==
  /\ [](\A i \in 0..7 : led[i] = hex_to_rgb(CHOICES_keys[i + 1]))
  /\ [][ /\ (led' # led) => (pc = "DISPLAYING" /\ \A i \in 0..7 : led'[i] = led[i])
         /\ (pc = "PULSING") => led' = led
       ]_vars

C16_Witness ==
  /\ Shown
  /\ Has(done, "display")
  /\ led[0] = <<0, 0, 255>>
  /\ led[7] = <<255, 255, 0>>
  /\ led[8] # led[7]

\* C17: a scan in which a pad with index 8 or more is down never issues a
\* push, with or without a palette button down too; only pads 0..7 push.
C17_HighPadsNeverPush ==
  /\ \A m \in Masks :
       m >= Bit(8) => press(last_button_states, m) = NoButton
  /\ Has(done, "push")
       => /\ button_states < Bit(8)
          /\ done[Pos(done, "push")].arg \in 0..7

C17_Witness ==
  /\ pc = "AWAITING_INPUT"
  /\ button_states = Bit(2) + Bit(9)
  /\ last_button_states = button_states
  /\ Has(done, "scan")
  /\ ~Has(done, "push")

====
